---------------------------- MODULE Spec2Model ----------------------------
(***************************************************************************)
(* Model of pkg/version/version.go of the secrets-store CSI driver: the    *)
(* provider/driver version gate.                                           *)
(*                                                                         *)
(* Go strings are sequences of one-character strings, so that splitting,   *)
(* trimming, prefix stripping and semver parsing are computed character by *)
(* character as the code and its libraries compute them.                   *)
(*                                                                         *)
(* Three specifications:                                                   *)
(*   RegSpec  - GetMinimumProviderVersions over a configuration string     *)
(*   Spec     - IsProviderCompatible: the probe process, the context, the  *)
(*              decode of its output and the semver comparison             *)
(*   FairSpec - Spec with the fairness the Go runtime gives its goroutines *)
(***************************************************************************)
EXTENDS Integers, Sequences, FiniteSets, TLC

(***************************************************************************)
(* Characters.  Ascii lists the characters the model uses in ASCII order;  *)
(* Ord is a character's rank in it (Go compares strings bytewise).         *)
(***************************************************************************)
Ascii ==
    << "\t", " ", "+", ",", "-", ".",
       "0", "1", "2", "3", "4", "5", "6", "7", "8", "9",
       "=", "a", "b", "c", "l", "p", "r", "v", "x", "{" >>

Ord(ch) == CHOOSE i \in 1..Len(Ascii) : Ascii[i] = ch

\* const numbers = "0123456789" (blang/semver)
numbers == {"0", "1", "2", "3", "4", "5", "6", "7", "8", "9"}

\* const alphanum = alphas + numbers, alphas including '-' (blang/semver)
alphanum == numbers \cup {"-", "a", "b", "c", "l", "p", "r", "v", "x"}

\* unicode.IsSpace, restricted to the characters of Ascii
IsSpace(ch) == ch \in {"\t", " "}

DigitVal(ch) == Ord(ch) - Ord("0")

NoErr == "nil"

(***************************************************************************)
(* package strings                                                         *)
(***************************************************************************)

\* strings.IndexRune, 1-based; 0 where Go returns -1
IndexRune(s, ch) ==
    IF \E i \in 1..Len(s) : s[i] = ch
    THEN CHOOSE i \in 1..Len(s) : s[i] = ch /\ \A j \in 1..(i-1) : s[j] # ch
    ELSE 0

\* s[i:] of Go for the 1-based position i
From(s, i) == SubSeq(s, i, Len(s))

RECURSIVE SplitN(_, _, _)
\* strings.SplitN(s, sep, n) for a one-character sep and n > 0
SplitN(s, sep, n) ==
    LET i == IndexRune(s, sep) IN
    IF n = 1 \/ i = 0
    THEN << s >>
    ELSE << SubSeq(s, 1, i - 1) >> \o SplitN(From(s, i + 1), sep, n - 1)

\* strings.Split(s, sep): every occurrence of sep separates two parts
Split(s, sep) == SplitN(s, sep, Len(s) + 1)

RECURSIVE TrimLeft(_)
TrimLeft(s) ==
    IF s # << >> /\ IsSpace(Head(s)) THEN TrimLeft(Tail(s)) ELSE s

RECURSIVE TrimRight(_)
TrimRight(s) ==
    IF s # << >> /\ IsSpace(s[Len(s)]) THEN TrimRight(SubSeq(s, 1, Len(s) - 1)) ELSE s

\* a trim of the leading whitespace only
TrimSpaceLeftOnly(s) == TrimLeft(s)

\* strings.TrimSpace
TrimSpace(s) == TrimRight(TrimLeft(s))

\* strings.TrimPrefix(s, prefix): s without ONE leading prefix, if it has it
TrimPrefix(s, prefix) ==
    IF Len(s) >= Len(prefix) /\ SubSeq(s, 1, Len(prefix)) = prefix
    THEN From(s, Len(prefix) + 1)
    ELSE s

RECURSIVE StrCmp(_, _)
\* Go's bytewise comparison of two strings: -1, 0, 1
StrCmp(a, b) ==
    IF a = << >> /\ b = << >> THEN 0
    ELSE IF a = << >> THEN -1
    ELSE IF b = << >> THEN 1
    ELSE IF Ord(Head(a)) < Ord(Head(b)) THEN -1
    ELSE IF Ord(Head(a)) > Ord(Head(b)) THEN 1
    ELSE StrCmp(Tail(a), Tail(b))

(***************************************************************************)
(* package github.com/blang/semver, as called through semver.Make and      *)
(* Version.Compare                                                         *)
(***************************************************************************)

containsOnly(s, set) == \A i \in 1..Len(s) : s[i] \in set

hasLeadingZeroes(s) == Len(s) > 1 /\ s[1] = "0"

RECURSIVE UintVal(_)
UintVal(s) ==
    IF s = << >> THEN 0 ELSE 10 * UintVal(SubSeq(s, 1, Len(s) - 1)) + DigitVal(s[Len(s)])

\* strconv.ParseUint(s, 10, 64) on a string of digits; the numerals of the
\* model stay far below 2^64, where the range error would start
ParseUint(s) ==
    IF s = << >>
    THEN [val |-> 0, err |-> "invalid syntax"]
    ELSE [val |-> UintVal(s), err |-> NoErr]

\* one numeric part (major, minor or patch) of semver.Parse
ParseNumber(s, what) ==
    IF ~containsOnly(s, numbers)
    THEN [val |-> 0, err |-> "invalid character(s) found in " \o what \o " number"]
    ELSE IF hasLeadingZeroes(s)
    THEN [val |-> 0, err |-> what \o " number must not contain leading zeroes"]
    ELSE ParseUint(s)

NoPR == [VersionStr |-> << >>, VersionNum |-> 0, IsNum |-> FALSE]

\* semver.NewPRVersion
NewPRVersion(s) ==
    IF Len(s) = 0
    THEN [pr |-> NoPR, err |-> "prerelease is empty"]
    ELSE IF containsOnly(s, numbers)
    THEN IF hasLeadingZeroes(s)
         THEN [pr |-> NoPR, err |-> "numeric prerelease must not contain leading zeroes"]
         ELSE [pr |-> [VersionStr |-> << >>, VersionNum |-> ParseUint(s).val, IsNum |-> TRUE],
               err |-> NoErr]
    ELSE IF containsOnly(s, alphanum)
    THEN [pr |-> [VersionStr |-> s, VersionNum |-> 0, IsNum |-> FALSE], err |-> NoErr]
    ELSE [pr |-> NoPR, err |-> "invalid character(s) found in prerelease"]

\* the error of the first bad element of a list of parse results, or NoErr
FirstErr(rs) ==
    IF \E i \in 1..Len(rs) : rs[i].err # NoErr
    THEN rs[CHOOSE i \in 1..Len(rs) :
                rs[i].err # NoErr /\ \A j \in 1..(i-1) : rs[j].err = NoErr].err
    ELSE NoErr

\* one build-metadata identifier of semver.Parse
ParseBuild(s) ==
    IF Len(s) = 0 THEN [err |-> "build meta data is empty"]
    ELSE IF ~containsOnly(s, alphanum)
    THEN [err |-> "invalid character(s) found in build meta data"]
    ELSE [err |-> NoErr]

NoVersion == [Major |-> 0, Minor |-> 0, Patch |-> 0, Pre |-> << >>, Build |-> << >>]

Failed(e) == [v |-> NoVersion, err |-> e]

\* semver.Parse from the prerelease and build identifiers on: prs and bds are
\* their parses
MakeVersion(major, minor, patch, prs, build, bds) ==
    IF major.err # NoErr THEN Failed(major.err)
    ELSE IF minor.err # NoErr THEN Failed(minor.err)
    ELSE IF patch.err # NoErr THEN Failed(patch.err)
    ELSE IF FirstErr(prs) # NoErr THEN Failed(FirstErr(prs))
    ELSE IF FirstErr(bds) # NoErr THEN Failed(FirstErr(bds))
    ELSE [v |-> [Major |-> major.val, Minor |-> minor.val, Patch |-> patch.val,
                 Pre |-> [i \in 1..Len(prs) |-> prs[i].pr],
                 Build |-> build],
          err |-> NoErr]

\* semver.Parse once the build metadata is cut off: noBuild is patch and
\* prerelease
MakePre(parts, build, noBuild) ==
    LET preIndex == IndexRune(noBuild, "-")
        prerelease == IF preIndex # 0
                      THEN Split(From(noBuild, preIndex + 1), ".") ELSE << >>
        patchStr == IF preIndex # 0
                    THEN SubSeq(noBuild, 1, preIndex - 1) ELSE noBuild
    IN
    MakeVersion(ParseNumber(parts[1], "major"),
                ParseNumber(parts[2], "minor"),
                ParseNumber(patchStr, "patch"),
                [i \in 1..Len(prerelease) |-> NewPRVersion(prerelease[i])],
                build,
                [i \in 1..Len(build) |-> ParseBuild(build[i])])

\* semver.Parse once the string is split into major.minor.(patch+pr+meta)
MakeParts(parts) ==
    IF Len(parts) # 3 THEN Failed("no Major.Minor.Patch elements found")
    ELSE
    LET buildIndex == IndexRune(parts[3], "+") IN
    MakePre(parts,
            IF buildIndex # 0 THEN Split(From(parts[3], buildIndex + 1), ".") ELSE << >>,
            IF buildIndex # 0 THEN SubSeq(parts[3], 1, buildIndex - 1) ELSE parts[3])

\* semver.Make(s), which is semver.Parse(s)
Make(s) ==
    IF Len(s) = 0 THEN Failed("version string empty")
    ELSE MakeParts(SplitN(s, ".", 3))

NumCmp(a, b) == IF a = b THEN 0 ELSE IF a > b THEN 1 ELSE -1

\* PRVersion.Compare
PRCompare(v, o) ==
    IF v.IsNum /\ ~o.IsNum THEN -1
    ELSE IF ~v.IsNum /\ o.IsNum THEN 1
    ELSE IF v.IsNum /\ o.IsNum THEN NumCmp(v.VersionNum, o.VersionNum)
    ELSE StrCmp(v.VersionStr, o.VersionStr)

RECURSIVE PreCompare(_, _)
\* the loop over the prerelease identifiers of Version.Compare and what
\* follows it
PreCompare(vp, op) ==
    IF vp = << >> /\ op = << >> THEN 0
    ELSE IF vp = << >> THEN -1
    ELSE IF op = << >> THEN 1
    ELSE IF PRCompare(Head(vp), Head(op)) # 0 THEN PRCompare(Head(vp), Head(op))
    ELSE PreCompare(Tail(vp), Tail(op))

\* Version.Compare: build metadata takes no part
Compare(v, o) ==
    IF v.Major # o.Major THEN NumCmp(v.Major, o.Major)
    ELSE IF v.Minor # o.Minor THEN NumCmp(v.Minor, o.Minor)
    ELSE IF v.Patch # o.Patch THEN NumCmp(v.Patch, o.Patch)
    ELSE IF Len(v.Pre) = 0 /\ Len(o.Pre) = 0 THEN 0
    ELSE IF Len(v.Pre) = 0 /\ Len(o.Pre) > 0 THEN 1
    ELSE IF Len(v.Pre) > 0 /\ Len(o.Pre) = 0 THEN -1
    ELSE PreCompare(v.Pre, o.Pre)

(***************************************************************************)
(* package version: the pure functions                                     *)
(***************************************************************************)

\* normalizeVersion: strings.TrimPrefix(version, "v")
normalizeVersion(version) == TrimPrefix(version, << "v" >>)

\* a validation of the normalized version
isValidSemverNormalized(version) == Make(normalizeVersion(version)).err

\* isValidSemver: the error of semver.Make(version)
isValidSemver(version) == Make(version).err

\* a comparison that refuses the equal version
isProviderCompatibleStrict(currVersion, minVersion) ==
    LET currV == Make(currVersion)
        minV == Make(minVersion)
    IN
    IF currV.err # NoErr THEN [ok |-> FALSE, err |-> currV.err]
    ELSE IF minV.err # NoErr THEN [ok |-> FALSE, err |-> minV.err]
    ELSE [ok |-> Compare(currV.v, minV.v) > 0, err |-> NoErr]

\* a comparison that takes an empty current version for "no version known"
isProviderCompatibleLenient(currVersion, minVersion) ==
    LET currV == Make(currVersion)
        minV == Make(minVersion)
    IN
    IF currVersion = << >> THEN [ok |-> TRUE, err |-> NoErr]
    ELSE IF currV.err # NoErr THEN [ok |-> FALSE, err |-> currV.err]
    ELSE IF minV.err # NoErr THEN [ok |-> FALSE, err |-> minV.err]
    ELSE [ok |-> Compare(currV.v, minV.v) >= 0, err |-> NoErr]

\* isProviderCompatible: (bool, error); currVersion is parsed first
isProviderCompatible(currVersion, minVersion) ==
    LET currV == Make(currVersion)
        minV == Make(minVersion)
    IN
    IF currV.err # NoErr THEN [ok |-> FALSE, err |-> currV.err]
    ELSE IF minV.err # NoErr THEN [ok |-> FALSE, err |-> minV.err]
    ELSE [ok |-> Compare(currV.v, minV.v) >= 0, err |-> NoErr]

(***************************************************************************)
(* GetMinimumProviderVersions                                              *)
(***************************************************************************)

\* make(map[string]string): the map is a function from provider names
EmptyMap == [p \in {} |-> << >>]

\* an error of GetMinimumProviderVersions with what its message prints
RegError(kind, pv, provider, version, prev, cause) ==
    [kind |-> kind, pv |-> pv, provider |-> provider, version |-> version,
     prev |-> prev, cause |-> cause]

NoRegError == RegError("nil", << >>, << >>, << >>, << >>, NoErr)

\* minProviderVersions == ""
IsEmptyConfig(minProviderVersions) == minProviderVersions = << >>

\* a split on the first "=" only
SplitPairOnFirstEq(p) == SplitN(p, "=", 2)

\* pv := strings.Split(p, "=")
SplitPair(p) == Split(p, "=")

\* len(pv) != 2
BadFormat(pv) == Len(pv) # 2

\* len(provider) == 0 || len(version) == 0
EmptyToken(provider, version) == Len(provider) = 0 \/ Len(version) = 0

\* v, exists := providerVersionMap[provider]
Exists(m, provider) == provider \in DOMAIN m

\* providerVersionMap[provider] = version
Put(m, provider, version) ==
    [q \in DOMAIN m \cup {provider} |-> IF q = provider THEN version ELSE m[q]]

\* the body of the loop with the semver check ahead of the duplicate check
LoopBodySemverFirst(m, p0) ==
    LET p == TrimSpace(p0)
        pv == SplitPair(p)
    IN
    IF BadFormat(pv)
    THEN [map |-> m, err |-> RegError("format", pv, << >>, << >>, << >>, NoErr)]
    ELSE
    LET provider == TrimSpace(pv[1])
        version == TrimSpace(pv[2])
    IN
    IF EmptyToken(provider, version)
    THEN [map |-> m, err |-> RegError("empty", << >>, provider, version, << >>, NoErr)]
    ELSE IF isValidSemver(version) # NoErr
    THEN [map |-> m,
          err |-> RegError("semver", << >>, provider, version, << >>,
                           isValidSemver(version))]
    ELSE IF Exists(m, provider)
    THEN [map |-> m,
          err |-> RegError("duplicate", << >>, provider, version, m[provider], NoErr)]
    ELSE [map |-> Put(m, provider, version), err |-> NoRegError]

\* the body of the loop over providers, for the element p0 and the map m:
\* the map after it, and the error it returns with (kind "nil": it goes on)
LoopBody(m, p0) ==
    LET p == TrimSpace(p0)
        pv == SplitPair(p)
    IN
    IF BadFormat(pv)
    THEN [map |-> m, err |-> RegError("format", pv, << >>, << >>, << >>, NoErr)]
    ELSE
    LET provider == TrimSpace(pv[1])
        version == TrimSpace(pv[2])
    IN
    IF EmptyToken(provider, version)
    THEN [map |-> m, err |-> RegError("empty", << >>, provider, version, << >>, NoErr)]
    ELSE IF Exists(m, provider)
    THEN [map |-> m,
          err |-> RegError("duplicate", << >>, provider, version, m[provider], NoErr)]
    ELSE IF isValidSemver(version) # NoErr
    THEN [map |-> m,
          err |-> RegError("semver", << >>, provider, version, << >>,
                           isValidSemver(version))]
    ELSE [map |-> Put(m, provider, version), err |-> NoRegError]

RECURSIVE RunLoop(_, _)
\* for _, p := range providers, from the map m
RunLoop(providers, m) ==
    IF providers = << >> THEN [map |-> m, err |-> NoRegError]
    ELSE LET r == LoopBody(m, Head(providers)) IN
         IF r.err # NoRegError THEN r ELSE RunLoop(Tail(providers), r.map)

\* the whole function: (map, error)
GetMinimumProviderVersions(minProviderVersions) ==
    IF IsEmptyConfig(minProviderVersions)
    THEN [map |-> EmptyMap, err |-> NoRegError]
    ELSE RunLoop(Split(minProviderVersions, ","), EmptyMap)

(***************************************************************************)
(* The inputs.  A version is drawn as a structure (its numbers, prerelease *)
(* identifiers and build metadata, behind pfx leading "v"s) and rendered   *)
(* to the text the code receives, or is junk text.  What semver.org says   *)
(* of a version is read off the structure, never off the parse of its      *)
(* text.                                                                   *)
(***************************************************************************)

\* a numeric and an alphanumeric prerelease identifier
IdN(n) == [num |-> TRUE, n |-> n, s |-> << >>]
IdS(s) == [num |-> FALSE, n |-> 0, s |-> s]

Ver(pfx, maj, min, pat, pre, build) ==
    [junk |-> FALSE, text |-> << >>, pfx |-> pfx, maj |-> maj, min |-> min,
     pat |-> pat, pre |-> pre, build |-> build]

Junk(text) ==
    [junk |-> TRUE, text |-> text, pfx |-> 0, maj |-> 0, min |-> 0, pat |-> 0,
     pre |-> << >>, build |-> << >>]

RECURSIVE Digits(_)
\* the decimal numeral of n, without leading zeroes
Digits(n) ==
    IF n < 10 THEN << Ascii[Ord("0") + n] >>
    ELSE Digits(n \div 10) \o << Ascii[Ord("0") + (n % 10)] >>

RECURSIVE JoinWith(_, _)
\* the texts of ss with sep between them
JoinWith(ss, sep) ==
    IF ss = << >> THEN << >>
    ELSE IF Len(ss) = 1 THEN ss[1]
    ELSE ss[1] \o << sep >> \o JoinWith(Tail(ss), sep)

IdText(id) == IF id.num THEN Digits(id.n) ELSE id.s

\* the text of a version
Render(v) ==
    IF v.junk THEN v.text
    ELSE [i \in 1..v.pfx |-> "v"]
         \o Digits(v.maj) \o << "." >> \o Digits(v.min) \o << "." >> \o Digits(v.pat)
         \o (IF v.pre = << >> THEN << >>
             ELSE << "-" >> \o JoinWith([i \in 1..Len(v.pre) |-> IdText(v.pre[i])], "."))
         \o (IF v.build = << >> THEN << >>
             ELSE << "+" >> \o JoinWith(v.build, "."))

\* semver.org 2: the text of v is a semantic version
SemverValid(v) == ~v.junk /\ v.pfx = 0

\* the text of v is a semantic version once a single leading "v" is stripped
SemverValidStripped(v) == ~v.junk /\ v.pfx <= 1

\* semver.org 11.4.2: alphanumeric identifiers are compared lexically in ASCII order
LexLess(a, b) ==
    \E k \in 1..(Len(a) + 1) :
        /\ k <= Len(b) + 1
        /\ \A j \in 1..(k - 1) : a[j] = b[j]
        /\ \/ k = Len(a) + 1 /\ k <= Len(b)
           \/ k <= Len(a) /\ k <= Len(b) /\ Ord(a[k]) < Ord(b[k])

\* semver.org 11.4.1-3: numeric below alphanumeric, numbers by value
IdLess(a, b) ==
    \/ a.num /\ ~b.num
    \/ a.num /\ b.num /\ a.n < b.n
    \/ ~a.num /\ ~b.num /\ LexLess(a.s, b.s)

\* semver.org 11.3-4: a prerelease is below the release; of two prereleases
\* the first differing identifier decides, and a longer list is above its prefix
PreLess(a, b) ==
    \/ a # << >> /\ b = << >>
    \/ /\ a # << >> /\ b # << >>
       /\ \E k \in 1..(Len(a) + 1) :
            /\ k <= Len(b) + 1
            /\ \A j \in 1..(k - 1) : a[j] = b[j]
            /\ \/ k = Len(a) + 1 /\ k <= Len(b)
               \/ k <= Len(a) /\ k <= Len(b) /\ IdLess(a[k], b[k])

\* semver.org 11: a has lower precedence than b (build metadata ignored)
PrecLess(a, b) ==
    \/ a.maj < b.maj
    \/ a.maj = b.maj /\ a.min < b.min
    \/ a.maj = b.maj /\ a.min = b.min /\ a.pat < b.pat
    \/ a.maj = b.maj /\ a.min = b.min /\ a.pat = b.pat /\ PreLess(a.pre, b.pre)

\* a is equal to or greater than b in semver precedence
PrecAtLeast(a, b) == ~PrecLess(a, b)

s100 == Ver(0, 1, 0, 0, << >>, << >>)
s213 == Ver(0, 2, 1, 3, << >>, << >>)
s100rc1 == Ver(0, 1, 0, 0, << IdS(<< "r", "c" >>), IdN(1) >>, << >>)
v100 == Ver(1, 1, 0, 0, << >>, << >>)

(***************************************************************************)
(* A configuration string is drawn as a list of fragments joined by ",".   *)
(* A fragment built by Pair is pad name pad "=" pad version pad; name and  *)
(* ver are the tokens it was built from.  A fragment built by Raw is text  *)
(* of another form.                                                        *)
(***************************************************************************)
Pair(pad, name, ver) ==
    [pair |-> TRUE, name |-> name, ver |-> ver,
     text |-> pad \o name \o pad \o << "=" >> \o pad \o Render(ver) \o pad]

Raw(text) == [pair |-> FALSE, name |-> << >>, ver |-> Junk(<< >>), text |-> text]

Fragments ==
    { Pair(<< >>, << "a" >>, s100),
      Pair(<< " " >>, << "a" >>, s100),
      Pair(<< >>, << "b" >>, s213),
      Pair(<< "\t", " " >>, << "b" >>, s100rc1),
      Pair(<< >>, << "a" >>, v100),
      Pair(<< >>, << "b" >>, Junk(<< "x" >>)),
      Pair(<< >>, << "a" >>, Junk(<< >>)),
      Pair(<< " " >>, << >>, s100),
      Raw(<< "a", "1", ".", "0", ".", "0" >>),
      Raw(<< "c", "=", "1", ".", "0", ".", "0", "=", "2" >>),
      Raw(<< >>),
      Raw(<< " " >>) }

\* the most fragments of a configuration string
MaxPairs == 3

ConfigText(c) == JoinWith([i \in 1..Len(c) |-> c[i].text], ",")

\* the lists of at most MaxPairs fragments; the empty string is drawn as the
\* empty list only, never as one empty fragment
Configs ==
    { c \in UNION { [1..n -> Fragments] : n \in 0..MaxPairs } :
        Len(c) = 1 => c[1].text # << >> }

(***************************************************************************)
(* State                                                                   *)
(***************************************************************************)
VARIABLES
    cfg,                 \* the fragments minProviderVersions was drawn from
    minProviderVersions, \* the argument of GetMinimumProviderVersions
    regPc,               \* "entry", "loop", "done"
    providers,           \* strings.Split(minProviderVersions, ",")
    idx,                 \* the position of the range loop in providers
    providerVersionMap,  \* the map being built
    regErr,              \* the error returned (NoRegError: none)
    minSpec,             \* the version minProviderVersion was drawn as
    minProviderVersion,  \* the argument of IsProviderCompatible
    pc,                  \* "call", "wait", "copy", "done": where the call is
    ctx,                 \* "live", "done": the context
    proc,                \* "none", "running", "exited", "reaped": the child
    status,              \* how the child ended, or that it never started
    watcher,             \* the goroutine of exec that kills on ctx.Done()
    cancelErr,           \* the watcher reported the context's error
    held,                \* a descendant of the child holds its output pipes
    stdout,              \* what the child wrote to its standard output
    stderr,              \* what the child wrote to its standard error
    result,              \* what IsProviderCompatible returned
    spawned,             \* the processes the call has started
    compared             \* the calls of isProviderCompatible it has made

regVars == << cfg, minProviderVersions, regPc, providers, idx,
              providerVersionMap, regErr >>

\* an error of IsProviderCompatible: its kind, the cause and, for a process
\* error, the captured standard error the message holds
Error(kind, cause, output) == [kind |-> kind, cause |-> cause, output |-> output]

NoError == Error("nil", NoErr, << >>)

\* the standard output of the child: no JSON document, or a JSON object
\* with or without a "version" field, which is a string or is not
Output(form, has, str, ver) == [form |-> form, has |-> has, str |-> str, ver |-> ver]

NoOutput == Output("garbage", FALSE, FALSE, Junk(<< >>))

chkVars == << minSpec, minProviderVersion, pc, ctx, proc, status, watcher,
              cancelErr, held, stdout, stderr, result, spawned, compared >>

vars == << regVars, chkVars >>

NoResult == [ok |-> FALSE, err |-> NoError]

\* the variables of the call while GetMinimumProviderVersions is modelled
ChkIdle ==
    /\ minSpec = Junk(<< >>)
    /\ minProviderVersion = << >>
    /\ pc = "idle"
    /\ ctx = "live"
    /\ proc = "none"
    /\ status = "none"
    /\ watcher = "none"
    /\ cancelErr = FALSE
    /\ held = FALSE
    /\ stdout = NoOutput
    /\ stderr = << >>
    /\ result = NoResult
    /\ spawned = 0
    /\ compared = 0

RegInit ==
    /\ ChkIdle
    /\ cfg \in Configs
    /\ minProviderVersions = ConfigText(cfg)
    /\ regPc = "entry"
    /\ providers = << >>
    /\ idx = 0
    /\ providerVersionMap = EmptyMap
    /\ regErr = NoRegError

\* the function up to the loop: the map is made, an empty string returns
\* at once, any other is split on ","
RegEnter ==
    /\ regPc = "entry"
    /\ IF IsEmptyConfig(minProviderVersions)
       THEN /\ regPc' = "done"
            /\ UNCHANGED << providers, idx >>
       ELSE /\ regPc' = "loop"
            /\ providers' = Split(minProviderVersions, ",")
            /\ idx' = 1
    /\ UNCHANGED << cfg, minProviderVersions, providerVersionMap, regErr, chkVars >>

\* an iteration that notes the error and goes on to the next pair
RegIterKeepsGoing ==
    /\ regPc = "loop"
    /\ idx <= Len(providers)
    /\ LET r == LoopBody(providerVersionMap, providers[idx]) IN
       /\ regErr' = IF r.err # NoRegError THEN r.err ELSE regErr
       /\ providerVersionMap' = r.map
       /\ idx' = idx + 1
    /\ UNCHANGED << cfg, minProviderVersions, regPc, providers, chkVars >>

\* one iteration of the loop: it returns with an error, or stores the pair
RegIter ==
    /\ regPc = "loop"
    /\ idx <= Len(providers)
    /\ LET r == LoopBody(providerVersionMap, providers[idx]) IN
       IF r.err # NoRegError
       THEN /\ regPc' = "done"
            /\ regErr' = r.err
            /\ UNCHANGED << idx, providerVersionMap >>
       ELSE /\ providerVersionMap' = r.map
            /\ idx' = idx + 1
            /\ UNCHANGED << regPc, regErr >>
    /\ UNCHANGED << cfg, minProviderVersions, providers, chkVars >>

\* the loop is over: the map is returned with no error
RegReturn ==
    /\ regPc = "loop"
    /\ idx > Len(providers)
    /\ regPc' = "done"
    /\ UNCHANGED << cfg, minProviderVersions, providers, idx,
                    providerVersionMap, regErr, chkVars >>

RegNext == RegEnter \/ RegIter \/ RegReturn

RegSpec == RegInit /\ [][RegNext]_vars

RegDone == regPc = "done"
RegOk == RegDone /\ regErr = NoRegError
RegFailed == RegDone /\ regErr # NoRegError

(***************************************************************************)
(* IsProviderCompatible and getProviderVersion                             *)
(*                                                                         *)
(* exec.CommandContext / cmd.Run, as os/exec documents them: Start fails   *)
(* at once on a context that is done; a goroutine kills the process when   *)
(* the context becomes done before Wait has seen the process exit; Wait    *)
(* returns once the process has exited AND, the output being copied into   *)
(* buffers through pipes, once every writer of those pipes has closed them *)
(* (a descendant that inherited them keeps them open).  A kill that finds  *)
(* the process exited but not yet waited for changes nothing before        *)
(* Go 1.20 and makes Wait return the context's error from Go 1.20 on.      *)
(***************************************************************************)

\* what a provider may report and a caller may require
Versions ==
    { Ver(0, 1, 0, 0, << >>, << >>),
      Ver(1, 1, 0, 0, << >>, << >>),
      Ver(2, 1, 0, 0, << >>, << >>),
      Ver(0, 0, 9, 0, << >>, << >>),
      Ver(1, 0, 10, 0, << >>, << >>),
      Ver(0, 1, 0, 1, << >>, << >>),
      Ver(0, 2, 0, 0, << >>, << >>),
      Ver(0, 10, 0, 0, << >>, << >>),
      Ver(0, 1, 0, 0, << IdS(<< "r", "c" >>) >>, << >>),
      Ver(1, 1, 0, 0, << IdS(<< "r", "c" >>), IdN(1) >>, << >>),
      Ver(0, 1, 0, 0, << IdS(<< "r", "c" >>), IdN(2) >>, << >>),
      Ver(0, 1, 0, 0, << IdS(<< "r", "c" >>), IdN(10) >>, << >>),
      Ver(0, 1, 0, 0, << IdN(1) >>, << >>),
      Ver(0, 1, 0, 0, << IdS(<< "r", "c", "-", "1" >>) >>, << >>),
      Ver(0, 1, 0, 0, << IdS(<< "a", "l", "p" >>) >>, << << "b", "1" >> >>),
      Ver(0, 1, 0, 0, << >>, << << "b" >> >>),
      Ver(1, 2, 0, 0, << >>, << << "b" >>, << "1" >> >>),
      Junk(<< >>),
      Junk(<< "v" >>),
      Junk(<< "1", ".", "0" >>),
      Junk(<< "0", "1", ".", "0", ".", "0" >>),
      Junk(<< "1", ".", "0", ".", "0", "-" >>),
      Junk(<< "1", ".", "0", ".", "0", "-", "0", "1" >>),
      Junk(<< "1", ".", "0", ".", "x" >>) }

Outputs ==
    { NoOutput,
      Output("object", FALSE, FALSE, Junk(<< >>)),
      Output("object", TRUE, FALSE, Junk(<< >>)) }
    \cup { Output("object", TRUE, TRUE, v) : v \in Versions }

\* what the child may leave on its standard error
Stderrs == { << >>, << "x" >> }

\* var pv providerVersion
providerVersion(version) ==
    [Version |-> version, BuildDate |-> << >>, MinDriverVersion |-> << >>]

\* json.Unmarshal(stdout.Bytes(), &pv): a field the object lacks keeps its
\* zero value
Unmarshal(out) ==
    IF out.form # "object"
    THEN [pv |-> providerVersion(<< >>), err |-> "invalid JSON"]
    ELSE IF out.has /\ ~out.str
    THEN [pv |-> providerVersion(<< >>),
          err |-> "cannot unmarshal into Go struct field providerVersion.version of type string"]
    ELSE IF out.has
    THEN [pv |-> providerVersion(Render(out.ver)), err |-> NoErr]
    ELSE [pv |-> providerVersion(<< >>), err |-> NoErr]

\* getProviderVersion after cmd.Run() has returned runErr: (string, error)
getProviderVersion(runErr, out, errOut) ==
    IF runErr # NoErr
    THEN [version |-> << >>, err |-> Error("process", runErr, errOut)]
    ELSE LET d == Unmarshal(out) IN
         IF d.err # NoErr
         THEN [version |-> << >>, err |-> Error("decode", d.err, << >>)]
         ELSE [version |-> d.pv.Version, err |-> NoError]

\* the (bool, error) that isProviderCompatible returned, handed on as it is
Compared(r) ==
    [ok |-> r.ok,
     err |-> IF r.err = NoErr THEN NoError ELSE Error("semver", r.err, << >>),
     compared |-> TRUE]

\* a caller that drops the error of getProviderVersion
IsProviderCompatibleDropsErr(gpv, minVersion) ==
    Compared(isProviderCompatible(normalizeVersion(gpv.version),
                                  normalizeVersion(minVersion)))

\* IsProviderCompatible once getProviderVersion has returned gpv: (bool,
\* error), and whether isProviderCompatible was called
IsProviderCompatible(gpv, minVersion) ==
    IF gpv.err # NoError
    THEN [ok |-> FALSE, err |-> gpv.err, compared |-> FALSE]
    ELSE Compared(isProviderCompatible(normalizeVersion(gpv.version),
                                       normalizeVersion(minVersion)))

\* cmd.Wait's error for a child that ended as st
RunErr(st, cancelled) ==
    IF st = "fail" THEN "exit status 1"
    ELSE IF st = "killed" THEN "signal: killed"
    ELSE IF cancelled THEN "context canceled"
    ELSE NoErr

\* the registry variables while IsProviderCompatible is modelled
RegIdle ==
    /\ cfg = << >>
    /\ minProviderVersions = << >>
    /\ regPc = "idle"
    /\ providers = << >>
    /\ idx = 0
    /\ providerVersionMap = EmptyMap
    /\ regErr = NoRegError

Init ==
    /\ RegIdle
    /\ minSpec \in Versions
    /\ minProviderVersion = Render(minSpec)
    /\ pc = "call"
    /\ ctx = "live"
    /\ proc = "none"
    /\ status = "none"
    /\ watcher = "none"
    /\ cancelErr = FALSE
    /\ held = FALSE
    /\ stdout = NoOutput
    /\ stderr = << >>
    /\ result = NoResult
    /\ spawned = 0
    /\ compared = 0

\* IsProviderCompatible returns what getProviderVersion's result gpv makes it
Return(gpv) ==
    \E r \in { IsProviderCompatible(gpv, minProviderVersion) } :
        /\ result' = [ok |-> r.ok, err |-> r.err]
        /\ compared' = compared + (IF r.compared THEN 1 ELSE 0)
        /\ pc' = "done"

\* the caller's context is cancelled or its deadline passes
CtxDone ==
    /\ pc # "done"
    /\ ctx = "live"
    /\ ctx' = "done"
    /\ UNCHANGED << regVars, minSpec, minProviderVersion, pc, proc, status, watcher,
                    cancelErr, held, stdout, stderr, result, spawned, compared >>

\* cmd.Run calls cmd.Start, which fails on a context that is done
StartCancelled ==
    /\ pc = "call"
    /\ ctx = "done"
    /\ status' = "nostart"
    /\ Return(getProviderVersion("context canceled", stdout, stderr))
    /\ UNCHANGED << regVars, minSpec, minProviderVersion, ctx, proc, watcher,
                    cancelErr, held, stdout, stderr, spawned >>

\* cmd.Start cannot start the program (not found, not executable)
StartFails ==
    /\ pc = "call"
    /\ ctx = "live"
    /\ status' = "nostart"
    /\ Return(getProviderVersion("executable file not found", stdout, stderr))
    /\ UNCHANGED << regVars, minSpec, minProviderVersion, ctx, proc, watcher,
                    cancelErr, held, stdout, stderr, spawned >>

\* cmd.Start starts the child and the goroutine that watches the context;
\* cmd.Run goes on to cmd.Wait
Start ==
    /\ pc = "call"
    /\ ctx = "live"
    /\ proc' = "running"
    /\ watcher' = "watching"
    /\ spawned' = spawned + 1
    /\ pc' = "wait"
    /\ UNCHANGED << regVars, minSpec, minProviderVersion, ctx, status, cancelErr,
                    held, stdout, stderr, result, compared >>

\* the child exits on its own, with its output written; a descendant of it
\* may go on holding the pipes
ProcExit ==
    /\ proc = "running"
    /\ proc' = "exited"
    /\ \/ /\ status' = "ok"
          /\ stdout' \in Outputs
          /\ stderr' = << >>
       \/ /\ status' = "fail"
          /\ stdout' = NoOutput
          /\ stderr' \in Stderrs
    /\ held' \in BOOLEAN
    /\ UNCHANGED << regVars, minSpec, minProviderVersion, pc, ctx, watcher,
                    cancelErr, result, spawned, compared >>

\* the watching goroutine sees ctx.Done() and calls Process.Kill
WatchKill ==
    /\ watcher = "watching"
    /\ ctx = "done"
    /\ watcher' = "stopped"
    /\ \/ /\ proc = "running"
          /\ proc' = "exited"
          /\ status' = "killed"
          /\ held' \in BOOLEAN
          /\ UNCHANGED cancelErr
       \/ /\ proc = "exited"
          /\ cancelErr' \in BOOLEAN
          /\ UNCHANGED << proc, status, held >>
    /\ UNCHANGED << regVars, minSpec, minProviderVersion, pc, ctx, stdout, stderr,
                    result, spawned, compared >>

\* the descendants holding the pipes exit or close them
PipesReleased ==
    /\ held
    /\ proc # "running"
    /\ held' = FALSE
    /\ UNCHANGED << regVars, minSpec, minProviderVersion, pc, ctx, proc, status,
                    watcher, cancelErr, stdout, stderr, result, spawned, compared >>

\* cmd.Wait: Process.Wait returns for the exited child and the watching
\* goroutine is told to stop
Reap ==
    /\ pc = "wait"
    /\ proc = "exited"
    /\ proc' = "reaped"
    /\ watcher' = "stopped"
    /\ pc' = "copy"
    /\ UNCHANGED << regVars, minSpec, minProviderVersion, ctx, status, cancelErr,
                    held, stdout, stderr, result, spawned, compared >>

\* where Finish is enabled: its guard, Return being always possible
FinishEnabled == pc = "copy" /\ ~held

\* cmd.Wait: the copies of the output have ended; cmd.Run returns, and
\* getProviderVersion and IsProviderCompatible after it
Finish ==
    /\ FinishEnabled
    /\ Return(getProviderVersion(RunErr(status, cancelErr), stdout, stderr))
    /\ UNCHANGED << regVars, minSpec, minProviderVersion, ctx, proc, status, watcher,
                    cancelErr, held, stdout, stderr, spawned >>

Next ==
    \/ CtxDone
    \/ StartCancelled
    \/ StartFails
    \/ Start
    \/ ProcExit
    \/ WatchKill
    \/ PipesReleased
    \/ Reap
    \/ Finish

Spec == Init /\ [][Next]_vars

\* the goroutine of the call and the watching goroutine are scheduled; the
\* child, its descendants and the caller's context are not the driver's.
\* The last conjunct is WF_vars(Finish) written out: a Finish step leaves
\* pc = "done", where Finish is disabled, so weak fairness of Finish is that
\* Finish is disabled infinitely often.
FairSpec ==
    /\ Spec
    /\ WF_vars(StartCancelled \/ StartFails \/ Start)
    /\ WF_vars(WatchKill)
    /\ WF_vars(Reap)
    /\ []<>~FinishEnabled

Done == pc = "done"

\* cmd.Run returned nil: the probe was successful
ProbeOk == Done /\ status = "ok" /\ ~cancelErr

(***************************************************************************)
(* Claims about IsProviderCompatible                                       *)
(***************************************************************************)

\* the version the successful probe printed
Probed == stdout.ver

\* C1: for a successful probe whose version c and a minimum m that are both
\* valid semver once a single leading "v" is stripped, IsProviderCompatible
\* returns no error, and true exactly when c is equal to or greater than m
\* in semver precedence.
C1_CompatibleIffAtLeastMinimum ==
    (ProbeOk /\ stdout.form = "object" /\ stdout.has /\ stdout.str
       /\ SemverValidStripped(Probed) /\ SemverValidStripped(minSpec))
        => /\ result.err = NoError
           /\ result.ok <=> PrecAtLeast(Probed, minSpec)

\* a "v"-prefixed probed version equal in precedence to a different minimum
\* text was found compatible
C1_Witness ==
    /\ ProbeOk
    /\ stdout.has /\ stdout.str
    /\ SemverValidStripped(Probed) /\ SemverValidStripped(minSpec)
    /\ Probed.pfx = 1
    /\ Render(Probed) # minProviderVersion
    /\ ~PrecLess(Probed, minSpec) /\ ~PrecLess(minSpec, Probed)
    /\ result.ok

\* C2: if the context fires while the probe process is running,
\* IsProviderCompatible eventually returns, with an error and never a
\* verdict of the comparison, and once it has returned the child is no
\* longer running.
C2_CancelledProbeReturnsError ==
    /\ (ctx = "done" /\ proc = "running") ~> (Done /\ result.err # NoError)
    /\ [](Done => proc # "running")

\* C3: when the probe cannot be started or exits non-zero,
\* IsProviderCompatible returns false with the process error of the probe
\* (holding the captured standard error), makes no semver comparison and
\* has started the probe at most once.
C3_ProcessErrorPropagates ==
    (Done /\ status \in {"nostart", "fail"})
        => /\ result.ok = FALSE
           /\ result.err.kind = "process"
           /\ result.err.output = stderr
           /\ compared = 0
           /\ spawned <= 1

\* a probe that exited non-zero with text on its standard error
C3_Witness ==
    /\ Done
    /\ status = "fail"
    /\ stderr # << >>
    /\ spawned = 1
    /\ result.err.kind = "process"

\* C8: when the probe exits successfully and its JSON object has no version
\* field, the probed version is the empty string and IsProviderCompatible
\* returns the invalid-semver error and false, whatever the minimum, the
\* empty minimum included.
C8_MissingVersionIsInvalidSemver ==
    (ProbeOk /\ stdout.form = "object" /\ ~stdout.has)
        => /\ getProviderVersion(NoErr, stdout, stderr)
                = [version |-> << >>, err |-> NoError]
           /\ result.ok = FALSE
           /\ result.err = Error("semver", "version string empty", << >>)
           /\ compared = 1

\* a successful probe without a version field, checked against the empty
\* minimum
C8_Witness ==
    /\ ProbeOk
    /\ stdout.form = "object"
    /\ ~stdout.has
    /\ minProviderVersion = << >>
    /\ result.err.kind = "semver"

(***************************************************************************)
(* What the specification says of a configuration, read off its fragments  *)
(***************************************************************************)

\* exactly one "=", with a name before it and a version after it
WellFormed(f) == f.pair /\ f.name # << >> /\ Render(f.ver) # << >>

\* two non-empty trimmed parts when split on the first "=" only
WellFormedOnFirstEq(f) ==
    LET parts == SplitN(f.text, "=", 2) IN
    /\ Len(parts) = 2
    /\ TrimSpace(parts[1]) # << >>
    /\ TrimSpace(parts[2]) # << >>

\* pair i names a provider that an earlier well-formed pair names
Repeats(c, i) ==
    /\ WellFormed(c[i])
    /\ \E j \in 1..(i - 1) : WellFormed(c[j]) /\ c[j].name = c[i].name

Violates(c, i) ==
    \/ ~WellFormed(c[i])
    \/ Repeats(c, i)
    \/ ~SemverValid(c[i].ver)

\* the leftmost violating pair, 0 when there is none
FirstViolation(c) ==
    IF \E i \in 1..Len(c) : Violates(c, i)
    THEN CHOOSE i \in 1..Len(c) : Violates(c, i) /\ \A j \in 1..(i - 1) : ~Violates(c, j)
    ELSE 0

MalformedKinds == {"format", "empty"}

\* the error kinds pair i may be reported with
KindsOf(c, i) ==
    IF ~WellFormed(c[i]) THEN MalformedKinds
    ELSE IF Repeats(c, i) THEN {"duplicate"}
    ELSE IF ~SemverValid(c[i].ver) THEN {"semver"}
    ELSE {}

AllSpace(s) == \A i \in 1..Len(s) : IsSpace(s[i])

\* the stepwise run and the function agree
RegAgrees ==
    RegDone => GetMinimumProviderVersions(minProviderVersions)
                 = [map |-> providerVersionMap, err |-> regErr]

\* the loop sees the fragments the string was drawn from
RegSplitsFragments ==
    (regPc = "loop") => providers = [i \in 1..Len(cfg) |-> cfg[i].text]

(***************************************************************************)
(* Claims about GetMinimumProviderVersions                                 *)
(***************************************************************************)

\* C4: every input that is empty or consists only of whitespace characters
\* returns an empty mapping and no error.
C4_EmptyOrBlankGivesEmptyMap ==
    (RegDone /\ AllSpace(minProviderVersions))
        => (regErr = NoRegError /\ providerVersionMap = EmptyMap)

\* C5 as stated, where the earlier of the two versions is valid semver:
\* whenever the same trimmed provider name appears in more than one
\* well-formed pair, the build fails with the duplicate-provider error.
C5_AnyRepeatIsDuplicateError ==
    (RegDone /\ \E i \in 1..Len(cfg) : \E j \in 1..(i - 1) :
                    /\ WellFormed(cfg[i]) /\ WellFormed(cfg[j])
                    /\ cfg[i].name = cfg[j].name
                    /\ SemverValid(cfg[j].ver))
        => regErr.kind = "duplicate"

\* C5 amended: when the leftmost violating pair repeats the name of an
\* earlier pair, the build fails with the duplicate-provider error naming the
\* provider and both version strings, whether the later version is identical,
\* different or not valid semver; and no input with a repeated provider name
\* builds successfully.
C5_FirstRepeatIsDuplicateError ==
    RegDone =>
        /\ \A i \in 1..Len(cfg) :
              (FirstViolation(cfg) = i /\ Repeats(cfg, i)) =>
                  /\ regErr.kind = "duplicate"
                  /\ regErr.provider = cfg[i].name
                  /\ regErr.version = Render(cfg[i].ver)
                  /\ \E j \in 1..(i - 1) :
                        /\ cfg[j].name = cfg[i].name
                        /\ regErr.prev = Render(cfg[j].ver)
        /\ (\E i \in 1..Len(cfg) : Repeats(cfg, i)) => regErr # NoRegError

\* a repeated provider whose later version is not valid semver was rejected
\* as a duplicate
C5_Witness ==
    /\ RegFailed
    /\ regErr.kind = "duplicate"
    /\ Repeats(cfg, idx)
    /\ ~SemverValid(cfg[idx].ver)

\* C6 as stated, on inputs of one pair: the build fails with a malformed-entry
\* error exactly when the pair does not split into two non-empty trimmed parts
\* on the first "=".
C6_SplitOnFirstEq ==
    (RegDone /\ Len(cfg) = 1) =>
        ((regErr.kind \in MalformedKinds) <=> ~WellFormedOnFirstEq(cfg[1]))

\* C6 amended: a pair is split on every "=" and must give exactly two parts,
\* both non-empty once trimmed (a pair with a second "=" is malformed too).
\* The loop fails with a malformed-entry error at the first pair it reaches
\* that is not of this form, and never reports a pair of this form as
\* malformed.
C6_SplitOnEveryEq ==
    RegDone =>
        /\ \A i \in 1..Len(cfg) :
              (~WellFormed(cfg[i]) /\ \A j \in 1..(i - 1) : ~Violates(cfg, j)) =>
                  (RegFailed /\ idx = i /\ regErr.kind \in MalformedKinds)
        /\ (RegFailed /\ regErr.kind \in MalformedKinds) => ~WellFormed(cfg[idx])

\* a pair with two "=" was rejected as malformed
C6_Witness ==
    /\ RegFailed
    /\ regErr.kind = "format"
    /\ Len(regErr.pv) = 3
    /\ WellFormedOnFirstEq(cfg[idx])

\* C7: pairs are validated in input order and the first violation is the one
\* reported: the error belongs to the leftmost violating pair, is what the
\* input cut after that pair yields, and is a function of the input.
C7_FirstViolationReported ==
    RegDone =>
        LET k == FirstViolation(cfg) IN
        /\ k = 0 => regErr = NoRegError
        /\ k > 0 =>
            /\ RegFailed
            /\ idx = k
            /\ regErr.kind \in KindsOf(cfg, k)
            /\ cfg[k].pair =>
                  (regErr.provider = cfg[k].name /\ regErr.version = Render(cfg[k].ver))
            /\ ConfigText(SubSeq(cfg, 1, k)) # << >> =>
                  GetMinimumProviderVersions(ConfigText(SubSeq(cfg, 1, k)))
                      = [map |-> providerVersionMap, err |-> regErr]

\* the leftmost of several violating pairs, after a valid one, was reported
C7_Witness ==
    /\ RegFailed
    /\ idx = 2
    /\ Len(cfg) = 3
    /\ Violates(cfg, 3)
    /\ regErr.kind \in KindsOf(cfg, 2)
    /\ KindsOf(cfg, 3) # KindsOf(cfg, 2)

\* C9: when every pair is well-formed, the trimmed names are pairwise distinct
\* and the trimmed versions are valid semver, the build succeeds and the map
\* holds exactly one entry per pair, from the trimmed name to the trimmed
\* version unchanged; the whitespace around pairs, names and versions is not
\* in the result.
C9_ValidConfigBuildsExactMap ==
    (RegDone /\ Len(cfg) > 0 /\ FirstViolation(cfg) = 0) =>
        /\ regErr = NoRegError
        /\ DOMAIN providerVersionMap = { cfg[i].name : i \in 1..Len(cfg) }
        /\ \A i \in 1..Len(cfg) : providerVersionMap[cfg[i].name] = Render(cfg[i].ver)

\* two padded pairs were built into a map of two entries
C9_Witness ==
    /\ RegOk
    /\ Cardinality(DOMAIN providerVersionMap) = 2
    /\ \E i \in 1..Len(cfg) : cfg[i].text # TrimSpace(cfg[i].text)
    /\ \E i \in 1..Len(cfg) : cfg[i].ver.pre # << >>

\* C10: a minimum with a leading "v" that is otherwise valid is rejected by
\* the build as invalid semver although isProviderCompatible, which is given
\* normalized versions, accepts it; every value of a successfully built map
\* is left unchanged by normalizeVersion and parses as the minimum.
C10_RegistryValuesNeedNoNormalizing ==
    RegDone =>
        /\ \A i \in 1..Len(cfg) :
              (FirstViolation(cfg) = i /\ WellFormed(cfg[i]) /\ ~Repeats(cfg, i)
                 /\ cfg[i].ver.pfx = 1 /\ SemverValidStripped(cfg[i].ver)) =>
                  /\ regErr.kind = "semver"
                  /\ regErr.version = Render(cfg[i].ver)
                  /\ isProviderCompatible(normalizeVersion(Render(s100)),
                                          normalizeVersion(regErr.version)).err = NoErr
        /\ RegOk =>
              \A p \in DOMAIN providerVersionMap :
                  /\ normalizeVersion(providerVersionMap[p]) = providerVersionMap[p]
                  /\ Make(normalizeVersion(providerVersionMap[p])).err = NoErr
                  /\ isProviderCompatible(normalizeVersion(Render(s100)),
                        normalizeVersion(providerVersionMap[p])).err = NoErr

\* a "v"-prefixed minimum was rejected as invalid semver
C10_Witness ==
    /\ RegFailed
    /\ regErr.kind = "semver"
    /\ regErr.version = Render(v100)
    /\ normalizeVersion(regErr.version) = Render(s100)
=============================================================================
